---- MODULE Spec2Model ----
(***************************************************************************)
(* Model of the Fossil Logic array toolkit: the filter and reduce          *)
(* execution entry points (code/logic/filter.c, code/logic/reduce.c),      *)
(* their type registries and the algorithms they dispatch to.              *)
(*                                                                         *)
(* A buffer is a sequence of elements; element i of the C array is         *)
(* At(b, i) (C indices start at 0).  An element of `stride` bytes is       *)
(* moved as a whole by memmove/memcpy, so the filter side keeps elements   *)
(* as values.  The accumulator of reduce is kept byte by byte, because     *)
(* the code writes it through pointers of several widths.                  *)
(***************************************************************************)
EXTENDS Integers, Sequences, FiniteSets, TLC

VARIABLES
    buf,        \* the caller's array (what base points to)
    out_count,  \* the caller's size_t that out_count points to
    accum,      \* the caller's accumulator bytes (what out_result points to)
    pc,         \* "idle" before the first call, then "returned" or "killed"
    status,     \* return value of the last call that returned
    args,       \* arguments of the last call
    pre,        \* buf, out_count, accum, status and pc as they were before the last call
    calls,      \* indices the callback was invoked on during the last call, in order
    supported,  \* what the last call of a type_supported function returned
    frame       \* the family member the last call entered and, while
                \* filter_partition runs step by step, its locals left and right

vars == <<buf, out_count, accum, pc, status, args, pre, calls, supported, frame>>

(***************************************************************************)
(* Bounds of the model.                                                    *)
(***************************************************************************)
MaxLen == 3         \* longest generated array
MaxVal == 2         \* generated element values are 1..MaxVal
MaxLanes == 2       \* largest lanes argument
OutSentinel == 9    \* content of the caller's out_count before the first call

(***************************************************************************)
(* C values.                                                               *)
(***************************************************************************)
NULL == "<NULL>"            \* the null pointer, as an identifier argument
PTR == "<ptr>"              \* a valid pointer to the caller's object
PtrBytes == 8               \* sizeof(char*), sizeof(size_t), sizeof(uint64_t)

At(b, i) == b[i + 1]
Put(b, i, v) == [b EXCEPT ![i + 1] = v]

\* memcpy(base, tmp, kept * stride): the first Len(tmp) elements of b replaced
CopyBack(b, tmp) == [i \in 1..Len(b) |-> IF i <= Len(tmp) THEN tmp[i] ELSE b[i]]

(***************************************************************************)
(* Type registry of filter (filter.c).                                     *)
(***************************************************************************)
g_filter_types ==
    << [id |-> "i8", size |-> 1],   [id |-> "i16", size |-> 2],
       [id |-> "i32", size |-> 4],  [id |-> "i64", size |-> 8],
       [id |-> "u8", size |-> 1],   [id |-> "u16", size |-> 2],
       [id |-> "u32", size |-> 4],  [id |-> "u64", size |-> 8],
       [id |-> "f32", size |-> 4],  [id |-> "f64", size |-> 8],
       [id |-> "char", size |-> 1], [id |-> "cstr", size |-> PtrBytes],
       [id |-> "bool", size |-> 1],
       [id |-> "hex", size |-> 8],  [id |-> "oct", size |-> 8],
       [id |-> "bin", size |-> 8],  [id |-> "size", size |-> PtrBytes],
       [id |-> "datetime", size |-> 8], [id |-> "duration", size |-> 8],
       [id |-> "any", size |-> 1],  [id |-> "null", size |-> 0] >>

g_filter_type_count == Len(g_filter_types)

RECURSIVE filter_type_scan(_, _)
filter_type_scan(type_id, i) ==
    IF i >= g_filter_type_count THEN 0
    ELSE IF At(g_filter_types, i).id = type_id THEN At(g_filter_types, i).size
    ELSE filter_type_scan(type_id, i + 1)

fossil_algorithm_filter_type_sizeof(type_id) ==
    IF type_id = NULL THEN 0 ELSE filter_type_scan(type_id, 0)

\* Mutant: supported means listed in the table, whatever the width.
filter_type_supported_listed(type_id) ==
    \E i \in 0..(g_filter_type_count - 1) : At(g_filter_types, i).id = type_id

fossil_algorithm_filter_type_supported(type_id) ==
    fossil_algorithm_filter_type_sizeof(type_id) # 0

(***************************************************************************)
(* Predicates.  A deterministic predicate is the set of element values it  *)
(* keeps; the null function pointer is the record with null = TRUE.        *)
(***************************************************************************)
KeepIn(S) == [null |-> FALSE, keep |-> S]
NullFn == [null |-> TRUE, keep |-> {}]
pred(p, elem) == elem \in p.keep

(***************************************************************************)
(* Core filter algorithms.  Each returns the buffer it leaves, the count   *)
(* it returns, the indices it called the predicate on and whether it       *)
(* divided by zero.                                                        *)
(***************************************************************************)
Res(b, n, c) == [buf |-> b, result |-> n, calls |-> c, divzero |-> FALSE]

RECURSIVE inplace_loop(_, _, _, _, _, _)
inplace_loop(b, count, p, read, write, c) ==
    IF ~(read < count) THEN Res(b, write, c)
    ELSE IF pred(p, At(b, read))
         THEN inplace_loop(IF write # read THEN Put(b, write, At(b, read)) ELSE b,
                           count, p, read + 1, write + 1, Append(c, read))
         ELSE inplace_loop(b, count, p, read + 1, write, Append(c, read))

filter_inplace(b, count, p) == inplace_loop(b, count, p, 0, 0, <<>>)

RECURSIVE stable_loop(_, _, _, _, _, _)
stable_loop(b, count, p, i, tmp, c) ==
    IF ~(i < count) THEN Res(CopyBack(b, tmp), Len(tmp), c)
    ELSE IF pred(p, At(b, i))
         THEN stable_loop(b, count, p, i + 1, Append(tmp, At(b, i)), Append(c, i))
         ELSE stable_loop(b, count, p, i + 1, tmp, Append(c, i))

\* Mutant: the result of malloc is not checked.
filter_stable_unchecked(b, count, p, malloc_ok) ==
    stable_loop(b, count, p, 0, <<>>, <<>>)

filter_stable(b, count, p, malloc_ok) ==
    IF ~malloc_ok THEN Res(b, 0, <<>>)
    ELSE stable_loop(b, count, p, 0, <<>>, <<>>)

RECURSIVE count_only_loop(_, _, _, _, _, _)
count_only_loop(b, count, p, i, hits, c) ==
    IF ~(i < count) THEN Res(b, hits, c)
    ELSE count_only_loop(b, count, p, i + 1,
                         IF pred(p, At(b, i)) THEN hits + 1 ELSE hits, Append(c, i))

\* Mutant: the count taken by compacting the buffer.
filter_count_only_compacting(b, count, p) == filter_inplace(b, count, p)

filter_count_only(b, count, p) == count_only_loop(b, count, p, 0, 0, <<>>)

RECURSIVE first_loop(_, _, _, _, _)
first_loop(b, count, p, i, c) ==
    IF ~(i < count) THEN Res(b, 0, c)
    ELSE IF pred(p, At(b, i)) THEN Res(b, 1, Append(c, i))
    ELSE first_loop(b, count, p, i + 1, Append(c, i))

filter_first(b, count, p) == first_loop(b, count, p, 0, <<>>)

\* for (i = count; i-- > 0; ): i is the value before the decrement
RECURSIVE last_loop(_, _, _, _)
last_loop(b, p, i, c) ==
    IF ~(i > 0) THEN Res(b, 0, c)
    ELSE IF pred(p, At(b, i - 1)) THEN Res(b, 1, Append(c, i - 1))
    ELSE last_loop(b, p, i - 1, Append(c, i - 1))

\* Mutant: the scan runs from the front.
filter_last_forward(b, count, p) == first_loop(b, count, p, 0, <<>>)

filter_last(b, count, p) == last_loop(b, p, count, <<>>)

RECURSIVE partition_loop(_, _, _, _, _)
partition_loop(b, p, left, right, c) ==
    IF ~(left < right) THEN Res(b, left, c)
    ELSE IF pred(p, At(b, left))
         THEN partition_loop(b, p, left + 1, right, Append(c, left))
         ELSE partition_loop(Put(b, left, At(b, right - 1)), p, left, right - 1,
                             Append(c, left))

filter_partition(b, count, p) == partition_loop(b, p, 0, count, <<>>)

\* the scan of one lane, for (i = start; i < end; ++i), of filter_lane_compact
RECURSIVE lane_compact_scan(_, _, _, _, _, _)
lane_compact_scan(b, p, i, end, write, c) ==
    IF ~(i < end) THEN Res(b, write, c)
    ELSE IF pred(p, At(b, i))
         THEN lane_compact_scan(Put(b, write, At(b, i)), p, i + 1, end, write + 1,
                                Append(c, i))
         ELSE lane_compact_scan(b, p, i + 1, end, write, Append(c, i))

\* Mutant: each lane compacts to its own start instead of the shared cursor.
RECURSIVE lane_compact_loop_own_cursor(_, _, _, _, _, _, _, _)
lane_compact_loop_own_cursor(b, count, p, lanes, lane_size, lane, write, c) ==
    LET start == lane * lane_size
        end == IF start + lane_size > count THEN count ELSE start + lane_size
    IN  IF ~(lane < lanes) THEN Res(b, write, c)
        ELSE IF start >= count THEN Res(b, write, c)
        ELSE LET r == lane_compact_scan(b, p, start, end, start, c)
             IN  lane_compact_loop_own_cursor(r.buf, count, p, lanes, lane_size,
                                              lane + 1, r.result, r.calls)

RECURSIVE lane_compact_loop(_, _, _, _, _, _, _, _)
lane_compact_loop(b, count, p, lanes, lane_size, lane, write, c) ==
    LET start == lane * lane_size
        end == IF start + lane_size > count THEN count ELSE start + lane_size
    IN  IF ~(lane < lanes) THEN Res(b, write, c)
        ELSE IF start >= count THEN Res(b, write, c)
        ELSE LET r == lane_compact_scan(b, p, start, end, write, c)
             IN  lane_compact_loop(r.buf, count, p, lanes, lane_size, lane + 1,
                                   r.result, r.calls)

\* lanes after "if (lanes == 0) lanes = 1; if (lanes > count) lanes = count;"
lane_clamp(lanes, count) ==
    LET l1 == IF lanes = 0 THEN 1 ELSE lanes
    IN  IF l1 > count THEN count ELSE l1

\* Mutant: the lane size rounded down, so the last elements fall in no lane.
lane_size_floor(count, lanes) == count \div lanes

\* (count + lanes - 1) / lanes, lanes # 0
lane_size_of(count, lanes) == (count + lanes - 1) \div lanes

\* A division by zero is undefined: the result carries divzero = TRUE and the
\* outcome of a build in which the division yields a value and execution goes on
\* (with lanes = 0 the lane loop then runs no iteration).
filter_lane_compact(b, count, lanes, p) ==
    LET l == lane_clamp(lanes, count)
    IN  IF l = 0 THEN [Res(b, 0, <<>>) EXCEPT !.divzero = TRUE]
        ELSE lane_compact_loop(b, count, p, l, lane_size_of(count, l), 0, 0, <<>>)

\* the scan of one lane of filter_lane_stable: kept elements go to tmp
RECURSIVE lane_stable_scan(_, _, _, _, _, _)
lane_stable_scan(b, p, i, end, tmp, c) ==
    IF ~(i < end) THEN [tmp |-> tmp, calls |-> c]
    ELSE IF pred(p, At(b, i))
         THEN lane_stable_scan(b, p, i + 1, end, Append(tmp, At(b, i)), Append(c, i))
         ELSE lane_stable_scan(b, p, i + 1, end, tmp, Append(c, i))

RECURSIVE lane_stable_loop(_, _, _, _, _, _, _, _)
lane_stable_loop(b, count, p, lanes, lane_size, lane, tmp, c) ==
    LET start == lane * lane_size
        end == IF start + lane_size > count THEN count ELSE start + lane_size
    IN  IF ~(lane < lanes) THEN Res(CopyBack(b, tmp), Len(tmp), c)
        ELSE IF start >= count THEN Res(CopyBack(b, tmp), Len(tmp), c)
        ELSE LET r == lane_stable_scan(b, p, start, end, tmp, c)
             IN  lane_stable_loop(b, count, p, lanes, lane_size, lane + 1,
                                  r.tmp, r.calls)

filter_lane_stable(b, count, lanes, p, malloc_ok) ==
    LET l == lane_clamp(lanes, count)
    IN  IF ~malloc_ok THEN Res(b, 0, <<>>)
        ELSE IF l = 0 THEN [Res(b, 0, <<>>) EXCEPT !.divzero = TRUE]
        ELSE lane_stable_loop(b, count, p, l, lane_size_of(count, l), 0, <<>>, <<>>)

(***************************************************************************)
(* Execution entry point of filter.                                        *)
(***************************************************************************)
\* Mutant: any non-zero lanes value selects the lane strategy.
filter_auto_any_lanes(algorithm_id, mode_id, lanes) ==
    LET alg == IF algorithm_id = NULL THEN "auto" ELSE algorithm_id
        mode == IF mode_id = NULL THEN "auto" ELSE mode_id
    IN  IF alg = "auto"
        THEN IF mode = "lane" \/ lanes > 0 THEN "lane-compact" ELSE "inplace"
        ELSE alg

\* "if (!algorithm_id) algorithm_id = "auto"" and the AUTO resolution
filter_auto(algorithm_id, mode_id, lanes) ==
    LET alg == IF algorithm_id = NULL THEN "auto" ELSE algorithm_id
        mode == IF mode_id = NULL THEN "auto" ELSE mode_id
    IN  IF alg = "auto"
        THEN IF mode = "lane" \/ lanes > 1 THEN "lane-compact" ELSE "inplace"
        ELSE alg

\* Mutant: the dry-run override applied only when the algorithm was left to auto.
filter_resolve_auto_only(algorithm_id, mode_id, lanes) ==
    IF mode_id = "dry-run" /\ algorithm_id \in {NULL, "auto"} THEN "count-only"
    ELSE filter_auto(algorithm_id, mode_id, lanes)

\* the algorithm identifier the dispatch sees: DRY-RUN forces count-only
filter_resolve(algorithm_id, mode_id, lanes) ==
    IF (IF mode_id = NULL THEN "auto" ELSE mode_id) = "dry-run" THEN "count-only"
    ELSE filter_auto(algorithm_id, mode_id, lanes)

FilterAlgorithms ==
    {"inplace", "compact", "stable", "lane-compact", "lane-stable",
     "count-only", "first", "last", "partition"}

\* What a call leaves: the status, the buffer, whether *out_count was written and
\* with what, the predicate calls, whether it divided by zero on the way, and
\* the family member the dispatch entered ("none" when it entered none).
Ret(st, b) ==
    [status |-> st, buf |-> b, wrote |-> FALSE, result |-> 0, calls |-> <<>>,
     divzero |-> FALSE, alg |-> "none"]

\* Mutant: an unrecognised identifier falls back to the in-place algorithm.
filter_dispatch_default(alg, b, count, lanes, p, malloc_ok, out) ==
    LET r == filter_inplace(b, count, p)
    IN  [status |-> 0, buf |-> r.buf, wrote |-> out # NULL,
         result |-> r.result, calls |-> r.calls, divzero |-> FALSE,
         alg |-> "inplace"]

\* "Dispatch": the if / else-if chain, its last else being "return -3"
filter_dispatch(alg, b, count, lanes, p, malloc_ok, out) ==
    LET r == IF alg = "inplace" \/ alg = "compact" THEN filter_inplace(b, count, p)
             ELSE IF alg = "stable" THEN filter_stable(b, count, p, malloc_ok)
             ELSE IF alg = "lane-compact" THEN filter_lane_compact(b, count, lanes, p)
             ELSE IF alg = "lane-stable"
                  THEN filter_lane_stable(b, count, lanes, p, malloc_ok)
             ELSE IF alg = "count-only" THEN filter_count_only(b, count, p)
             ELSE IF alg = "first" THEN filter_first(b, count, p)
             ELSE IF alg = "last" THEN filter_last(b, count, p)
             ELSE filter_partition(b, count, p)
    IN  IF alg \notin FilterAlgorithms THEN Ret(-3, b)
        ELSE [status |-> 0, buf |-> r.buf, wrote |-> out # NULL,
              result |-> r.result, calls |-> r.calls, divzero |-> r.divzero,
              alg |-> alg]

\* Mutant: the stride is not checked.
filter_validate_no_type(a) ==
    IF a.base = NULL \/ a.predicate.null THEN -1 ELSE 0

\* the checks in front: 0 when the call goes on
filter_validate(a) ==
    IF a.base = NULL \/ a.predicate.null THEN -1
    ELSE IF fossil_algorithm_filter_type_sizeof(a.type_id) = 0 THEN -2
    ELSE 0

fossil_algorithm_filter_exec(b, a) ==
    IF filter_validate(a) # 0 THEN Ret(filter_validate(a), b)
    ELSE filter_dispatch(filter_resolve(a.id, a.mode_id, a.lanes), b, Len(b),
                         a.lanes, a.predicate, a.malloc_ok, a.out)

(***************************************************************************)
(* Type registry of reduce (reduce.c).                                     *)
(***************************************************************************)
g_reduce_types ==
    << [id |-> "i8", size |-> 1],   [id |-> "i16", size |-> 2],
       [id |-> "i32", size |-> 4],  [id |-> "i64", size |-> 8],
       [id |-> "u8", size |-> 1],   [id |-> "u16", size |-> 2],
       [id |-> "u32", size |-> 4],  [id |-> "u64", size |-> 8],
       [id |-> "f32", size |-> 4],  [id |-> "f64", size |-> 8],
       [id |-> "bool", size |-> 1],
       [id |-> "size", size |-> PtrBytes],
       [id |-> "datetime", size |-> 8], [id |-> "duration", size |-> 8],
       [id |-> "any", size |-> 1],  [id |-> "null", size |-> 0] >>

g_reduce_type_count == Len(g_reduce_types)

RECURSIVE reduce_type_scan(_, _)
reduce_type_scan(type_id, i) ==
    IF i >= g_reduce_type_count THEN 0
    ELSE IF type_id = At(g_reduce_types, i).id THEN At(g_reduce_types, i).size
    ELSE reduce_type_scan(type_id, i + 1)

fossil_algorithm_reduce_type_sizeof(type_id) ==
    IF type_id = NULL THEN 0 ELSE reduce_type_scan(type_id, 0)

fossil_algorithm_reduce_type_supported(type_id) ==
    fossil_algorithm_reduce_type_sizeof(type_id) # 0

(***************************************************************************)
(* Memory of the accumulator and of one element: little-endian bytes.      *)
(* Arithmetic is done on the bytes, so every width up to 64 bits wraps as  *)
(* the C type does.                                                        *)
(***************************************************************************)
AccBytes == 8               \* the accumulator object is as wide as a size_t
Fill(x, n) == [k \in 1..n |-> x]

\* the n-byte two's-complement encoding of the integer v
RECURSIVE ToBytes(_, _)
ToBytes(v, n) == IF n = 0 THEN <<>> ELSE <<v % 256>> \o ToBytes(v \div 256, n - 1)

\* a + b on n bytes, the carry out of the top byte dropped
RECURSIVE AddBytes(_, _, _, _)
AddBytes(a, b, k, carry) ==
    IF k > Len(a) THEN <<>>
    ELSE LET t == a[k] + b[k] + carry
         IN  <<t % 256>> \o AddBytes(a, b, k + 1, t \div 256)

\* a < b for two's-complement numbers of the same width, from the top byte down
RECURSIVE UnsignedLess(_, _, _)
UnsignedLess(a, b, k) ==
    IF k = 0 THEN FALSE
    ELSE IF a[k] # b[k] THEN a[k] < b[k]
    ELSE UnsignedLess(a, b, k - 1)

FlipSign(a) == [a EXCEPT ![Len(a)] = (a[Len(a)] + 128) % 256]
SignedLess(a, b) == UnsignedLess(FlipSign(a), FlipSign(b), Len(a))

\* the low n bytes of the accumulator, and the accumulator with them replaced
Low(acc, n) == SubSeq(acc, 1, n)
Store(acc, bytes) ==
    [k \in 1..Len(acc) |-> IF k <= Len(bytes) THEN bytes[k] ELSE acc[k]]

IntMax(n) == [k \in 1..n |-> IF k = n THEN 127 ELSE 255]    \* INT8_MAX .. INT64_MAX
IntMin(n) == [k \in 1..n |-> IF k = n THEN 128 ELSE 0]      \* INT8_MIN .. INT64_MIN

SignedTypes == {"i8", "i16", "i32", "i64"}
UnsignedTypes == {"u8", "u16", "u32", "u64"}
IntWidth(type_id) ==
    IF type_id \in {"i8", "u8"} THEN 1
    ELSE IF type_id \in {"i16", "u16"} THEN 2
    ELSE IF type_id \in {"i32", "u32"} THEN 4
    ELSE 8

(***************************************************************************)
(* Internal reducers.  elem is the element's bytes.  The float branches    *)
(* are not modelled: no call of the model passes f32 or f64.               *)
(***************************************************************************)
reduce_sum(acc, elem, type_id) ==
    IF type_id \in SignedTypes \cup UnsignedTypes
    THEN LET w == IntWidth(type_id)
         IN  Store(acc, AddBytes(Low(acc, w), Low(elem, w), 1, 0))
    ELSE acc

reduce_min(acc, elem, type_id) ==
    IF type_id \in SignedTypes
    THEN LET w == IntWidth(type_id)
         IN  IF SignedLess(Low(elem, w), Low(acc, w)) THEN Store(acc, Low(elem, w))
             ELSE acc
    ELSE acc

reduce_max(acc, elem, type_id) ==
    IF type_id \in SignedTypes
    THEN LET w == IntWidth(type_id)
         IN  IF SignedLess(Low(acc, w), Low(elem, w)) THEN Store(acc, Low(elem, w))
             ELSE acc
    ELSE acc

AsBool(bytes) == bytes[1] # 0
BoolByte(x) == IF x THEN 1 ELSE 0
reduce_any(acc, elem) == Store(acc, <<BoolByte(AsBool(acc) \/ AsBool(elem))>>)
reduce_all(acc, elem) == Store(acc, <<BoolByte(AsBool(acc) /\ AsBool(elem))>>)

\* *(size_t*)out_result += 1
reduce_count(acc) == AddBytes(acc, ToBytes(1, AccBytes), 1, 0)

\* The caller's reducers.  "fold_low" is acc = 2 * acc + elem on the low byte:
\* it does not commute, so the order of the calls shows in the result.
Reducers == {"fold_low"}
reduce_fn_call(fn, acc, elem) ==
    Store(acc, <<(2 * acc[1] + elem[1]) % 256>>)

(***************************************************************************)
(* Public execution entry of reduce.                                       *)
(***************************************************************************)
ReduceOperators == {"sum", "min", "max", "count", "any", "all", "custom"}

\* Mutant: every operator without an identity of its own starts from zero.
reduce_init_zero_default(acc, op_id, type_id, stride) ==
    IF op_id = "min"
    THEN IF type_id \in SignedTypes THEN Store(acc, IntMax(IntWidth(type_id)))
         ELSE acc
    ELSE IF op_id = "max"
         THEN IF type_id \in SignedTypes THEN Store(acc, IntMin(IntWidth(type_id)))
              ELSE acc
    ELSE IF op_id = "any" THEN Store(acc, <<0>>)
    ELSE IF op_id = "all" THEN Store(acc, <<1>>)
    ELSE Store(acc, Fill(0, stride))

\* "Initialize accumulator"
reduce_init(acc, op_id, type_id, stride) ==
    IF op_id = "sum" \/ op_id = "count" THEN Store(acc, Fill(0, stride))
    ELSE IF op_id = "min"
         THEN IF type_id \in SignedTypes THEN Store(acc, IntMax(IntWidth(type_id)))
              ELSE acc
    ELSE IF op_id = "max"
         THEN IF type_id \in SignedTypes THEN Store(acc, IntMin(IntWidth(type_id)))
              ELSE acc
    ELSE IF op_id = "any" THEN Store(acc, <<0>>)
    ELSE IF op_id = "all" THEN Store(acc, <<1>>)
    ELSE acc

\* the body of the element loop, for a recognised operator
reduce_step(acc, elem, op_id, type_id, fn) ==
    IF op_id = "sum" THEN reduce_sum(acc, elem, type_id)
    ELSE IF op_id = "min" THEN reduce_min(acc, elem, type_id)
    ELSE IF op_id = "max" THEN reduce_max(acc, elem, type_id)
    ELSE IF op_id = "count" THEN reduce_count(acc)
    ELSE IF op_id = "any" THEN reduce_any(acc, elem)
    ELSE IF op_id = "all" THEN reduce_all(acc, elem)
    ELSE reduce_fn_call(fn, acc, elem)

RRet(st, acc, c) == [status |-> st, accum |-> acc, calls |-> c]

\* size_t lanes.  The lane arithmetic is done in size_t, modulo 2^64, and lanes is
\* not clamped here.  A value at the top of the range is kept as a negative
\* integer: -k stands for SIZE_MAX + 1 - k, so + and - on the integers are
\* + and - modulo 2^64 (count and the small values stay as they are).
SIZE_MAX == -1
\* x < y in size_t
SizeLess(x, y) == IF (x < 0) = (y < 0) THEN x < y ELSE y < 0
\* x / y in size_t, y # 0: a divisor at the top of the range goes into x once
\* or not at all (a small divisor meets a small dividend only: count + lanes - 1)
SizeDiv(x, y) == IF y < 0 THEN (IF SizeLess(x, y) THEN 0 ELSE 1) ELSE x \div y

\* for (i = start; i < end; ++i): "else return -3" leaves the whole function
RECURSIVE reduce_scan(_, _, _, _, _, _, _)
reduce_scan(b, a, stride, i, end, acc, c) ==
    IF ~(i < end) THEN RRet(0, acc, c)
    ELSE IF a.id \notin ReduceOperators THEN RRet(-3, acc, c)
    ELSE reduce_scan(b, a, stride, i + 1, end,
                     reduce_step(acc, ToBytes(At(b, i), stride), a.id, a.type_id,
                                 a.reduce_fn),
                     IF a.id = "custom" THEN Append(c, i) ELSE c)

RECURSIVE reduce_lanes(_, _, _, _, _, _, _, _)
reduce_lanes(b, a, stride, lanes, lane_size, lane, acc, c) ==
    LET count == Len(b)
        start == lane * lane_size
        end == IF start + lane_size > count THEN count ELSE start + lane_size
    IN  IF ~SizeLess(lane, lanes) THEN RRet(0, acc, c)
        ELSE IF start >= count THEN RRet(0, acc, c)
        \* lane_size 0 with count > 0: this lane and every later one is [0, 0), the
        \* loop counts lane up to lanes and folds nothing
        ELSE IF lane_size = 0 THEN RRet(0, acc, c)
        ELSE LET r == reduce_scan(b, a, stride, start, end, acc, c)
             IN  IF r.status # 0 THEN r
                 ELSE reduce_lanes(b, a, stride, lanes, lane_size, lane + 1,
                                   r.accum, r.calls)

\* Mutant: the type is resolved before the pointers are checked.
reduce_validate_type_first(a) ==
    IF fossil_algorithm_reduce_type_sizeof(a.type_id) = 0 THEN -2
    ELSE IF a.base = NULL \/ a.out = NULL \/ a.type_id = NULL \/ a.id = NULL THEN -1
    ELSE IF a.id = "custom" /\ a.reduce_fn = NULL THEN -1
    ELSE 0

\* Mutant: a missing reducer is not checked.
reduce_validate_no_custom(a) ==
    IF a.base = NULL \/ a.out = NULL \/ a.type_id = NULL \/ a.id = NULL THEN -1
    ELSE IF fossil_algorithm_reduce_type_sizeof(a.type_id) = 0 THEN -2
    ELSE 0

\* the checks in front: 0 when the call goes on
reduce_validate(a) ==
    IF a.base = NULL \/ a.out = NULL \/ a.type_id = NULL \/ a.id = NULL THEN -1
    ELSE IF fossil_algorithm_reduce_type_sizeof(a.type_id) = 0 THEN -2
    ELSE IF a.id = "custom" /\ a.reduce_fn = NULL THEN -1
    ELSE 0

fossil_algorithm_reduce_exec(b, acc, a) ==
    LET stride == fossil_algorithm_reduce_type_sizeof(a.type_id)
        lanes == IF a.lanes = 0 THEN 1 ELSE a.lanes
        lane_size == SizeDiv(Len(b) + lanes - 1, lanes)
    IN  IF reduce_validate(a) # 0 THEN RRet(reduce_validate(a), acc, <<>>)
        ELSE reduce_lanes(b, a, stride, lanes, lane_size, 0,
                          reduce_init(acc, a.id, a.type_id, stride), <<>>)

(***************************************************************************)
(* The callers: the arguments a call is made with.                         *)
(***************************************************************************)
Values == 1..MaxVal
Arrays(V) == UNION {[1..n -> V] : n \in 0..MaxLen}
TestArray == <<1, 2, 3, 4, 5, 6>>                  \* test_filter.cpp, arr
Range(f) == {f[i] : i \in DOMAIN f}
keep_even == KeepIn({v \in Range(TestArray) : v % 2 = 0})
Predicates == {KeepIn(S) : S \in SUBSET Values} \cup {keep_even}

FilterArrays == Arrays(Values) \cup {TestArray}
AlgorithmArgs == FilterAlgorithms \cup {"auto", NULL, "notalgo"}
ModeArgs == {NULL, "auto", "lane", "dry-run"}
LaneArgs == 0..MaxLanes
TypeArgs == {NULL, "i32", "u8", "cstr", "null", "notatype", "I32"}

ReduceValues == {-1, 0, 1, 127}
\* the arrays of test_reduce.cpp: u8 max, i32 sum, custom product
ReduceTestArrays == {<<4, 2, 5, 1, 3>>, <<1, 2, 3, 4, 5>>, <<2, 3, 4>>}
ReduceArrays == Arrays(ReduceValues) \cup ReduceTestArrays \cup {TestArray}
ReduceLaneArgs == LaneArgs \cup {SIZE_MAX}
ReduceTypeArgs == {"i8", "u8", "i16", "i32", "bool"}
OperatorArgs == ReduceOperators \cup {"notop"}
AccumInits == {Fill(0, AccBytes), Fill(170, AccBytes)}

FilterArgs(base, type_id, algorithm_id, mode_id, lanes, predicate, out, malloc_ok) ==
    [fn |-> "filter", base |-> base, type_id |-> type_id, id |-> algorithm_id,
     mode_id |-> mode_id, lanes |-> lanes, predicate |-> predicate,
     reduce_fn |-> NULL, out |-> out, malloc_ok |-> malloc_ok]

ReduceArgs(base, type_id, op_id, mode_id, lanes, out, reduce_fn) ==
    [fn |-> "reduce", base |-> base, type_id |-> type_id, id |-> op_id,
     mode_id |-> mode_id, lanes |-> lanes, predicate |-> NullFn,
     reduce_fn |-> reduce_fn, out |-> out, malloc_ok |-> TRUE]

NoArgs == [FilterArgs(NULL, NULL, NULL, NULL, 0, NullFn, NULL, TRUE) EXCEPT !.fn = "none"]

\* Calls with valid pointers and a registered type: the algorithms at work.
\* The outcome of malloc is an input of the two algorithms that call it.
CallsMalloc(a) == filter_resolve(a.id, a.mode_id, a.lanes) \in {"stable", "lane-stable"}
FilterCalls ==
    {a \in {FilterArgs(PTR, "i32", al, m, l, p, PTR, ok) :
                al \in AlgorithmArgs, m \in ModeArgs, l \in LaneArgs,
                p \in Predicates, ok \in BOOLEAN} :
        a.malloc_ok \/ CallsMalloc(a)}

\* A reducer is passed with operator custom only (the other operators ignore it).
ReduceCalls ==
    {a \in {ReduceArgs(PTR, t, op, "auto", l, PTR, f) :
                t \in ReduceTypeArgs, op \in OperatorArgs, l \in ReduceLaneArgs,
                f \in Reducers \cup {NULL}} :
        a.reduce_fn = NULL \/ a.id = "custom"}

\* calls of the validation paths: null pointers, unknown identifiers
ValidateArrays == {<<>>, <<1, 2>>, TestArray}
ValidateFilterCalls ==
    {FilterArgs(b, t, al, m, l, p, o, TRUE) :
        b \in {NULL, PTR}, t \in TypeArgs, al \in AlgorithmArgs,
        m \in {NULL, "lane", "dry-run"}, l \in {0, 2},
        p \in {NullFn, keep_even}, o \in {NULL, PTR}}
ValidateReduceCalls ==
    {ReduceArgs(b, t, op, NULL, l, o, f) :
        b \in {NULL, PTR}, t \in TypeArgs, op \in OperatorArgs \cup {NULL},
        l \in {0, 2}, o \in {NULL, PTR}, f \in Reducers \cup {NULL}}

(***************************************************************************)
(* State machine.  A call runs to completion (the library is synchronous   *)
(* and single-threaded), so each entry point is one action.  The caller    *)
(* makes a call and may repeat the same call once on what the first left.  *)
(***************************************************************************)
Snapshot ==
    [buf |-> buf, out_count |-> out_count, accum |-> accum, status |-> status,
     pc |-> pc]

NoFrame == [alg |-> "none", left |-> 0, right |-> 0]

InitWith(arrays, accums) ==
    /\ buf \in arrays
    /\ out_count = OutSentinel
    /\ accum \in accums
    /\ pc = "idle"
    /\ status = 0
    /\ args = NoArgs
    /\ pre = Snapshot
    /\ calls = <<>>
    /\ supported = FALSE
    /\ frame = NoFrame

\* the calls the caller may make now: any call of S first, then the one
\* repetition of the call just made
MayCall(S) ==
    IF pc = "idle" THEN S
    ELSE IF pc = "returned" /\ pre.pc = "idle" THEN {args}
    ELSE {}

FilterExec(a) ==
    LET r == fossil_algorithm_filter_exec(buf, a)
    IN  /\ a.fn = "filter"
        /\ args' = a
        /\ pre' = Snapshot
        /\ accum' = accum
        /\ supported' = supported
        /\ frame' = [NoFrame EXCEPT !.alg = r.alg]
        /\ \/ /\ pc' = "returned"
              /\ status' = r.status
              /\ buf' = r.buf
              /\ out_count' = IF r.wrote THEN r.result ELSE out_count
              /\ calls' = r.calls
           \/ /\ r.divzero          \* the division traps (SIGFPE): no return
              /\ pc' = "killed"
              /\ UNCHANGED <<buf, out_count, status>>
              /\ calls' = r.calls

ReduceExec(a) ==
    LET r == fossil_algorithm_reduce_exec(buf, accum, a)
    IN  /\ a.fn = "reduce"
        /\ args' = a
        /\ pre' = Snapshot
        /\ pc' = "returned"
        /\ status' = r.status
        /\ accum' = r.accum
        /\ calls' = r.calls
        /\ frame' = NoFrame
        /\ UNCHANGED <<buf, out_count, supported>>

Init == InitWith(FilterArrays, {Fill(0, AccBytes)})
Next == \E a \in MayCall(FilterCalls) : FilterExec(a)
Spec == Init /\ [][Next]_vars

InitReduce == InitWith(ReduceArrays, AccumInits)
NextReduce == \E a \in MayCall(ReduceCalls) : ReduceExec(a)
SpecReduce == InitReduce /\ [][NextReduce]_vars

\* The caller asks a registry about a type identifier.  The two functions of a
\* registry are pure: they may be called at any time, with any identifier.
TypeSizeof(reg, t) ==
    /\ args' = [NoArgs EXCEPT !.fn = reg \o "_type_sizeof", !.type_id = t]
    /\ pre' = Snapshot
    /\ pc' = "returned"
    /\ status' = IF reg = "filter" THEN fossil_algorithm_filter_type_sizeof(t)
                  ELSE fossil_algorithm_reduce_type_sizeof(t)
    /\ calls' = <<>>
    /\ frame' = NoFrame
    /\ UNCHANGED <<buf, out_count, accum, supported>>

TypeSupported(reg, t) ==
    /\ args' = [NoArgs EXCEPT !.fn = reg \o "_type_supported", !.type_id = t]
    /\ pre' = Snapshot
    /\ pc' = "returned"
    /\ supported' = IF reg = "filter" THEN fossil_algorithm_filter_type_supported(t)
                     ELSE fossil_algorithm_reduce_type_supported(t)
    /\ calls' = <<>>
    /\ frame' = NoFrame
    /\ UNCHANGED <<buf, out_count, accum, status>>

\* every identifier of either table, strings of neither (case changed, cut
\* short, extended, empty) and the null pointer
TypeQueryArgs ==
    {At(g_filter_types, i).id : i \in 0..(g_filter_type_count - 1)}
    \cup {At(g_reduce_types, i).id : i \in 0..(g_reduce_type_count - 1)}
    \cup {"I32", "Bool", "i", "i321", "", "notatype", "NULL", NULL}

InitTypes == InitWith({<<>>}, {Fill(0, AccBytes)})
NextTypes ==
    \/ \E t \in TypeQueryArgs : TypeSizeof("filter", t)
    \/ \E t \in TypeQueryArgs : TypeSupported("filter", t)
    \/ \E t \in TypeQueryArgs : TypeSizeof("reduce", t)
    \/ \E t \in TypeQueryArgs : TypeSupported("reduce", t)
SpecTypes == InitTypes /\ [][NextTypes]_vars

\* filter_partition step by step: the entry point up to the dispatch, one
\* iteration of the while loop, and the return through the entry point.
PartitionCalls ==
    {FilterArgs(PTR, "i32", "partition", m, l, p, o, TRUE) :
        m \in {NULL, "auto", "lane"}, l \in LaneArgs, p \in Predicates,
        o \in {NULL, PTR}}

PartitionEnter(a) ==
    /\ pc = "idle"
    /\ a.fn = "filter"
    /\ filter_validate(a) = 0
    /\ filter_resolve(a.id, a.mode_id, a.lanes) = "partition"
    /\ args' = a
    /\ pre' = Snapshot
    /\ pc' = "partition"
    /\ frame' = [alg |-> "partition", left |-> 0, right |-> Len(buf)]
    /\ calls' = <<>>
    /\ UNCHANGED <<buf, out_count, accum, status, supported>>

\* Mutant: a failing element shrinks the range but nothing is moved into its place.
PartitionStepNoMove ==
    /\ pc = "partition"
    /\ frame.left < frame.right
    /\ calls' = Append(calls, frame.left)
    /\ IF pred(args.predicate, At(buf, frame.left))
       THEN frame' = [frame EXCEPT !.left = frame.left + 1]
       ELSE frame' = [frame EXCEPT !.right = frame.right - 1]
    /\ UNCHANGED <<buf, out_count, accum, pc, status, args, pre, supported>>

PartitionStep ==
    /\ pc = "partition"
    /\ frame.left < frame.right
    /\ calls' = Append(calls, frame.left)
    /\ IF pred(args.predicate, At(buf, frame.left))
       THEN /\ frame' = [frame EXCEPT !.left = frame.left + 1]
            /\ buf' = buf
       ELSE /\ frame' = [frame EXCEPT !.right = frame.right - 1]
            /\ buf' = Put(buf, frame.left, At(buf, frame.right - 1))
    /\ UNCHANGED <<out_count, accum, pc, status, args, pre, supported>>

PartitionReturn ==
    /\ pc = "partition"
    /\ ~(frame.left < frame.right)
    /\ out_count' = IF args.out # NULL THEN frame.left ELSE out_count
    /\ status' = 0
    /\ pc' = "returned"
    /\ UNCHANGED <<buf, accum, args, pre, calls, supported, frame>>

InitPartition == InitWith(FilterArrays, {Fill(0, AccBytes)})
NextPartition ==
    \/ \E a \in PartitionCalls : PartitionEnter(a)
    \/ PartitionStep
    \/ PartitionReturn
SpecPartition == InitPartition /\ [][NextPartition]_vars

InitValidate == InitWith(ValidateArrays, AccumInits)
NextValidate ==
    \/ \E a \in MayCall(ValidateFilterCalls) : FilterExec(a)
    \/ \E a \in MayCall(ValidateReduceCalls) : ReduceExec(a)
SpecValidate == InitValidate /\ [][NextValidate]_vars

(***************************************************************************)
(* What the claims speak of, stated apart from the algorithms above.       *)
(***************************************************************************)
Kept(b, p) == SelectSeq(b, LAMBDA v : v \in p.keep)         \* satisfying, in order
Rejected(b, p) == SelectSeq(b, LAMBDA v : v \notin p.keep)  \* failing, in order
Prefix(b, n) == SubSeq(b, 1, n)
Beyond(b, n) == SubSeq(b, n + 1, Len(b))
Occurrences(b, v) == Cardinality({i \in DOMAIN b : b[i] = v})
SameElements(x, y) ==
    /\ Len(x) = Len(y)
    /\ \A v \in Range(x) \cup Range(y) : Occurrences(x, v) = Occurrences(y, v)

FilterTypeNames == {"i8", "i16", "i32", "i64", "u8", "u16", "u32", "u64", "f32", "f64",
                    "char", "cstr", "bool", "hex", "oct", "bin", "size", "datetime",
                    "duration", "any"}
ReduceTypeNames == {"i8", "i16", "i32", "i64", "u8", "u16", "u32", "u64", "f32", "f64",
                    "bool", "size", "datetime", "duration", "any"}

FilterReturned == pc = "returned" /\ args.fn = "filter"
ReduceReturned == pc = "returned" /\ args.fn = "reduce"
\* a filter call that passes the checks in front of the dispatch
FilterRan ==
    /\ FilterReturned
    /\ args.base # NULL /\ ~args.predicate.null
    /\ args.type_id \in FilterTypeNames
\* the algorithm the call asked for, auto and dry-run resolved as the spec says
Requested ==
    IF args.mode_id = "dry-run" THEN "count-only"
    ELSE IF args.id \in {NULL, "auto"}
         THEN IF args.mode_id = "lane" \/ args.lanes > 1 THEN "lane-compact"
              ELSE "inplace"
    ELSE args.id
NothingWritten ==
    buf = pre.buf /\ out_count = pre.out_count /\ accum = pre.accum

\* C1: on a non-empty array, inplace, compact, stable, lane-compact and
\* lane-stable (scratch allocation succeeding, any lanes) return 0, set out_count
\* to the number of satisfying elements and leave exactly those elements, in
\* their original order, in positions [0, out_count).
C1_OrderPreserving ==
    (/\ FilterRan
     /\ Len(pre.buf) > 0
     /\ Requested \in {"inplace", "compact", "stable", "lane-compact", "lane-stable"}
     /\ args.malloc_ok /\ args.out # NULL)
    => /\ status = 0
       /\ out_count = Len(Kept(pre.buf, args.predicate))
       /\ Len(buf) = Len(pre.buf)
       /\ Prefix(buf, out_count) = Kept(pre.buf, args.predicate)

\* lane-compact with two lanes has compacted the test array to 2, 4, 6
C1_Witness ==
    /\ FilterRan /\ args.id = "lane-compact" /\ args.lanes = 2
    /\ args.mode_id = "auto"
    /\ pre.buf = TestArray /\ args.predicate = keep_even
    /\ status = 0 /\ out_count = 3 /\ buf = <<2, 4, 6, 4, 5, 6>>

\* C2: partition on [1,2,3,4,5,6] with keep-even returns 0, count 3 and the
\* prefix 2, 4, 6 (the satisfying elements in their original order).
C2_PartitionTestArray ==
    (/\ FilterRan /\ args.id = "partition" /\ args.mode_id # "dry-run"
     /\ pre.buf = TestArray /\ args.predicate = keep_even /\ args.out # NULL)
    => /\ status = 0
       /\ out_count = 3
       /\ Prefix(buf, 3) = <<2, 4, 6>>

\* C3: after partition returns count k on n elements, positions [k, n) hold
\* exactly the elements of the original array that failed the predicate.
C3_PartitionTail ==
    (/\ FilterRan /\ args.id = "partition" /\ args.mode_id # "dry-run"
     /\ args.out # NULL)
    => /\ status = 0
       /\ SameElements(Beyond(buf, out_count), Rejected(pre.buf, args.predicate))

\* C4: under mode dry-run, whatever algorithm identifier is requested, the call
\* returns 0 and the count of satisfying elements, as count-only does, and the
\* buffer is untouched.
C4_DryRunIsCountOnly ==
    (FilterRan /\ args.mode_id = "dry-run" /\ args.out # NULL)
    => LET c == fossil_algorithm_filter_exec(pre.buf,
                    [args EXCEPT !.id = "count-only", !.mode_id = "auto"])
       IN  /\ status = 0 /\ c.status = 0
           /\ out_count = Len(Kept(pre.buf, args.predicate))
           /\ out_count = c.result
           /\ buf = pre.buf /\ c.buf = pre.buf

\* a dry run of partition counted 3 on the test array and left it alone
C4_Witness ==
    /\ FilterRan /\ args.id = "partition" /\ args.mode_id = "dry-run"
    /\ pre.buf = TestArray /\ args.predicate = keep_even
    /\ status = 0 /\ out_count = 3 /\ buf = TestArray

\* C5: count-only, first and last leave the buffer as it was, and the same call
\* made a second time returns the same status and out_count as the first.
C5_ReadOnlyIdempotent ==
    (FilterRan /\ Requested \in {"count-only", "first", "last"})
    => /\ buf = pre.buf
       /\ (pre.pc = "returned" /\ args.out # NULL)
            => (status = pre.status /\ out_count = pre.out_count)

\* the second of two runs of last, which found a match on an array of three
C5_Witness ==
    /\ FilterRan /\ args.id = "last" /\ args.mode_id = "auto"
    /\ pre.pc = "returned" /\ Len(buf) = 3
    /\ status = 0 /\ out_count = 1 /\ pre.out_count = 1 /\ calls = <<2, 1>>

\* C7: with valid base, predicate and type, an algorithm identifier that after
\* auto and dry-run resolution is none of the nine recognised ones gives -3, with
\* no predicate call and buffer and out_count untouched.
C7_UnknownAlgorithm ==
    (/\ FilterRan
     /\ Requested \notin {"inplace", "compact", "stable", "lane-compact",
                          "lane-stable", "count-only", "first", "last", "partition"})
    => /\ status = -3
       /\ calls = <<>>
       /\ buf = pre.buf /\ out_count = pre.out_count

\* an unrecognised algorithm under mode lane was refused on the test array
C7_Witness ==
    /\ FilterRan /\ args.id = "notalgo" /\ args.mode_id = "lane" /\ args.lanes = 2
    /\ pre.buf = TestArray /\ status = -3 /\ out_count = OutSentinel

\* a call whose base, callback and output pointers are all non-null
PointersGiven ==
    /\ pc = "returned"
    /\ args.base # NULL /\ args.out # NULL
    /\ \/ args.fn = "filter" /\ ~args.predicate.null
       \/ args.fn = "reduce" /\ args.reduce_fn # NULL
\* the type identifier is a string that the called side's registry does not
\* hold with a width (an unregistered string, or "null")
TypeUnknown ==
    /\ args.type_id # NULL
    /\ args.fn = "filter" => args.type_id \notin FilterTypeNames
    /\ args.fn = "reduce" => args.type_id \notin ReduceTypeNames

\* C6 as stated: with non-null base, callback and output, an unregistered type
\* (or "null") gives -2 for every algorithm/operator, mode, lanes and count, and
\* nothing is written.
C6_UnknownTypeAnyOperator ==
    (PointersGiven /\ TypeUnknown)
    => /\ status = -2
       /\ NothingWritten /\ calls = <<>>

\* C6 amended: the same, for every algorithm identifier of filter_exec (null
\* included) and every non-null operator identifier of reduce_exec.
C6_UnknownType ==
    (PointersGiven /\ TypeUnknown /\ (args.fn = "reduce" => args.id # NULL))
    => /\ status = -2
       /\ NothingWritten /\ calls = <<>>

\* reduce refused "cstr", which only filter registers, and left the accumulator
C6_Witness ==
    /\ PointersGiven /\ args.fn = "reduce" /\ args.type_id = "cstr"
    /\ args.id = "custom" /\ args.lanes = 2 /\ Len(buf) > 0
    /\ status = -2 /\ accum = Fill(170, AccBytes)

\* C9: filter_exec returns -1 when base or predicate is null; reduce_exec returns
\* -1 when base, the accumulator, the type or the operator identifier is null;
\* whatever the other arguments are, and nothing is written.
C9_NullInput ==
    (/\ pc = "returned"
     /\ \/ args.fn = "filter" /\ (args.base = NULL \/ args.predicate.null)
        \/ args.fn = "reduce" /\ (\/ args.base = NULL \/ args.out = NULL
                                  \/ args.type_id = NULL \/ args.id = NULL))
    => /\ status = -1
       /\ NothingWritten /\ calls = <<>>

\* reduce with a null accumulator, an unregistered type and an unknown operator
C9_Witness ==
    /\ ReduceReturned /\ args.base # NULL /\ args.out = NULL
    /\ args.type_id = "notatype" /\ args.id = "notop" /\ Len(buf) > 0
    /\ status = -1

\* a reduce call with operator custom and no reducer, the pointers and the
\* identifiers being there
CustomWithoutReducer ==
    /\ ReduceReturned
    /\ args.base # NULL /\ args.out # NULL /\ args.type_id # NULL
    /\ args.id = "custom" /\ args.reduce_fn = NULL

\* C10 as stated: operator custom with a null reducer gives -1 for every type
\* identifier, an unregistered one included, and the accumulator is unchanged.
C10_CustomNullBeforeType ==
    CustomWithoutReducer => (status = -1 /\ accum = pre.accum)

\* C10 amended: operator custom with a null reducer gives -1 for every
\* registered type identifier and -2 for an unregistered one or "null" (the type
\* is resolved first); the accumulator is unchanged and nothing is folded.
C10_CustomNullAfterType ==
    CustomWithoutReducer
    => /\ status = IF args.type_id \in ReduceTypeNames THEN -1 ELSE -2
       /\ accum = pre.accum /\ calls = <<>>

\* custom without a reducer on a registered type and a non-empty array
C10_Witness ==
    /\ CustomWithoutReducer /\ args.type_id = "i32" /\ Len(buf) > 0
    /\ status = -1 /\ accum = Fill(170, AccBytes)

\* C8: with valid base, accumulator and type, an operator identifier that is
\* none of the seven recognised ones gives -3, for every count and lanes.
C8_UnknownOperator ==
    (/\ ReduceReturned
     /\ args.base # NULL /\ args.out # NULL /\ args.type_id \in ReduceTypeNames
     /\ args.id \notin {NULL, "sum", "min", "max", "count", "any", "all", "custom"})
    => status = -3

(***************************************************************************)
(* Reduce: what the claims speak of.                                       *)
(***************************************************************************)
RECURSIVE SumOf(_)
SumOf(b) == IF b = <<>> THEN 0 ELSE Head(b) + SumOf(Tail(b))
Smallest(b) == CHOOSE v \in Range(b) : \A u \in Range(b) : v <= u
Largest(b) == CHOOSE v \in Range(b) : \A u \in Range(b) : v >= u
Indices(n) == [i \in 1..n |-> i - 1]               \* 0, 1, ..., n - 1
\* the largest value of a signed type of w bytes, w <= 4
SignedTop(w) == (2 ^ (8 * w - 2) - 1) * 2 + 1
\* a reduce call that passes the checks in front
ReduceRan ==
    /\ ReduceReturned
    /\ args.base # NULL /\ args.out # NULL /\ args.id # NULL
    /\ args.type_id \in ReduceTypeNames
    /\ args.id = "custom" => args.reduce_fn # NULL
\* the bytes of the accumulator object that the operator's result occupies
ResultBytes(acc) ==
    IF args.id = "count" THEN acc
    ELSE IF args.id \in {"any", "all"} THEN Low(acc, 1)
    ELSE Low(acc, fossil_algorithm_reduce_type_sizeof(args.type_id))

\* C11: max over the u8 array [4,2,5,1,3], the accumulator holding 0 before the
\* call, returns 0 and leaves the accumulator equal to 5 (the call of the test:
\* lanes is 0).
C11_U8Max ==
    (/\ ReduceRan /\ args.id = "max" /\ args.type_id = "u8" /\ args.lanes = 0
     /\ pre.buf = <<4, 2, 5, 1, 3>> /\ Low(pre.accum, 1) = <<0>>)
    => (status = 0 /\ Low(accum, 1) = <<5>>)

\* C12: for sum, min, max, count, any and all and every supported type, the
\* accumulator after a successful call does not depend on what it held before:
\* the same call started on any other initial content ends with the same value
\* (stated for lanes values whose lane size does not wrap).
C12_AccumulatorIndependent ==
    (/\ ReduceRan /\ status = 0 /\ args.lanes \in LaneArgs
     /\ args.id \in {"sum", "min", "max", "count", "any", "all"})
    => \A other \in AccumInits :
          LET r == fossil_algorithm_reduce_exec(pre.buf, other, args)
          IN  r.status = 0 /\ ResultBytes(r.accum) = ResultBytes(accum)

\* C13: for every integer type of width w, sum returns 0 and leaves the sum of
\* all elements modulo 2^w (0 for an empty array), for every lanes value.
C13_SumModulo ==
    (/\ ReduceRan /\ args.id = "sum"
     /\ args.type_id \in {"i8", "i16", "i32", "i64", "u8", "u16", "u32", "u64"})
    => LET w == fossil_algorithm_reduce_type_sizeof(args.type_id)
       IN  status = 0 /\ Low(accum, w) = ToBytes(SumOf(pre.buf), w)

\* C14: for the signed integer types, min (max) on a non-empty array returns 0
\* with the smallest (largest) element in the accumulator; on an empty array the
\* accumulator is the type's largest (smallest) value.
C14_SignedMinMax ==
    (/\ ReduceRan /\ args.id \in {"min", "max"}
     /\ args.type_id \in {"i8", "i16", "i32"})
    => LET w == fossil_algorithm_reduce_type_sizeof(args.type_id)
           expected ==
               IF args.id = "min"
               THEN IF pre.buf = <<>> THEN SignedTop(w) ELSE Smallest(pre.buf)
               ELSE IF pre.buf = <<>> THEN -SignedTop(w) - 1 ELSE Largest(pre.buf)
       IN  status = 0 /\ Low(accum, w) = ToBytes(expected, w)

\* C15: for every supported type and every array, count on a size_t accumulator
\* holding 0 returns 0 and leaves the element count, for every lanes value.
C15_Count ==
    (ReduceRan /\ args.id = "count" /\ pre.accum = Fill(0, AccBytes))
    => (status = 0 /\ accum = ToBytes(Len(pre.buf), AccBytes))

\* the reducer applied to the elements of b from index i on, in ascending order
RECURSIVE FoldFrom(_, _, _, _)
FoldFrom(acc, b, i, a) ==
    IF i >= Len(b) THEN acc
    ELSE FoldFrom(reduce_fn_call(a.reduce_fn, acc,
                                 ToBytes(At(b, i),
                                         fossil_algorithm_reduce_type_sizeof(a.type_id))),
                  b, i + 1, a)

\* C16: custom with a reducer returns 0 having invoked the reducer exactly once
\* for each index of [0, count) in ascending order, for every lanes value, and
\* the accumulator is what those calls made of its initial content.
C16_CustomOncePerIndex ==
    (ReduceRan /\ args.id = "custom")
    => /\ status = 0
       /\ calls = Indices(Len(pre.buf))
       /\ accum = FoldFrom(pre.accum, pre.buf, 0, args)

\* a call of lane-compact or lane-stable on a non-empty array
LaneFilterRan ==
    /\ FilterRan /\ args.out # NULL
    /\ Requested \in {"lane-compact", "lane-stable"}
    /\ Len(pre.buf) > 0
\* the predicate was called on every index of [0, count) exactly once
EveryIndexOnce ==
    /\ Len(calls) = Len(pre.buf)
    /\ Range(calls) = 0..(Len(pre.buf) - 1)
\* the same call with any other lanes value leaves the same buffer, out_count
\* and status
SameForEveryLanes ==
    \A l \in LaneArgs \cup {Len(pre.buf), Len(pre.buf) + 1} :
        LET r == fossil_algorithm_filter_exec(pre.buf,
                     [args EXCEPT !.id = Requested, !.lanes = l])
        IN  r.status = status /\ r.buf = buf /\ r.wrote /\ r.result = out_count

\* C17 as stated: on a non-empty array and for every lanes value, the lanes of
\* lane-compact and lane-stable cover every index exactly once, and buffer,
\* out_count and status are the same for every lanes value.
C17_LanesCoverAlways ==
    LaneFilterRan => (EveryIndexOnce /\ SameForEveryLanes)

\* C17 amended: the same when the scratch allocation of lane-stable succeeds;
\* when it fails nothing is scanned, and buffer, out_count and status are still
\* the same for every lanes value.
C17_LanesCover ==
    LaneFilterRan
    => /\ SameForEveryLanes
       /\ IF args.malloc_ok THEN EveryIndexOnce /\ status = 0
                                 /\ out_count = Len(Kept(pre.buf, args.predicate))
          ELSE calls = <<>>

\* lane-stable with lanes 2 on a single element (clamped to 1) scanned index 0
C17_Witness ==
    /\ LaneFilterRan /\ args.id = "lane-stable" /\ args.mode_id = "auto"
    /\ args.malloc_ok
    /\ Len(pre.buf) = 1 /\ args.lanes = 2 /\ calls = <<0>>
    /\ pre.buf[1] \in args.predicate.keep /\ out_count = 1

\* C18: when the scratch allocation fails in stable or lane-stable, the call
\* returns 0 with out_count 0, the predicate is not invoked and the buffer is
\* what it was.
C18_AllocationFailure ==
    (/\ FilterRan /\ args.out # NULL
     /\ Requested \in {"stable", "lane-stable"} /\ ~args.malloc_ok)
    => /\ status = 0 /\ out_count = 0
       /\ calls = <<>>
       /\ buf = pre.buf

\* stable failed to allocate on [1, 2], both elements of which the predicate keeps
C18_Witness ==
    /\ FilterRan /\ args.id = "stable" /\ args.mode_id = "auto" /\ ~args.malloc_ok
    /\ pre.buf = <<1, 2>> /\ args.predicate.keep = {1, 2}
    /\ status = 0 /\ out_count = 0 /\ buf = <<1, 2>>

\* C19: in each registry type_sizeof returns a width above 0 for every
\* registered identifier other than "null" and 0 for "null", an unregistered
\* string and the null pointer; type_supported is true exactly when the width
\* is not 0.
C19_TypeRegistry ==
    LET names == IF args.fn \in {"filter_type_sizeof", "filter_type_supported"}
                 THEN FilterTypeNames ELSE ReduceTypeNames
    IN  /\ args.fn \in {"filter_type_sizeof", "reduce_type_sizeof"}
            => /\ args.type_id \in names => status > 0
               /\ args.type_id \notin names => status = 0
        /\ args.fn \in {"filter_type_supported", "reduce_type_supported"}
            => supported = (args.type_id \in names)

\* the reduce registry was asked about "cstr", which only filter lists
C19_Witness ==
    /\ args.fn = "reduce_type_supported" /\ args.type_id = "cstr" /\ ~supported
    /\ pre.status = 8

\* the index of the first and of the last element the predicate keeps
FirstHit(b, p) == CHOOSE i \in 0..(Len(b) - 1) :
                     /\ At(b, i) \in p.keep
                     /\ \A j \in 0..(i - 1) : At(b, j) \notin p.keep
LastHit(b, p) == CHOOSE i \in 0..(Len(b) - 1) :
                    /\ At(b, i) \in p.keep
                    /\ \A j \in (i + 1)..(Len(b) - 1) : At(b, j) \notin p.keep

\* C20: first and last return 0 with out_count 1 when some element satisfies
\* the predicate and 0 otherwise (the empty array included), so they agree;
\* first calls the predicate on 0, 1, ... up to the first hit, last on count-1,
\* count-2, ... down to the last hit.
C20_FirstLast ==
    (FilterRan /\ args.out # NULL /\ Requested \in {"first", "last"})
    => LET b == pre.buf
           n == Len(b)
           hit == \E i \in 0..(n - 1) : At(b, i) \in args.predicate.keep
           other == fossil_algorithm_filter_exec(b,
                        [args EXCEPT !.id = IF Requested = "first" THEN "last"
                                            ELSE "first"])
       IN  /\ status = 0 /\ buf = b
           /\ out_count = IF hit THEN 1 ELSE 0
           /\ other.status = 0 /\ other.result = out_count
           /\ calls = IF Requested = "first"
                      THEN [k \in 1..(IF hit THEN FirstHit(b, args.predicate) + 1
                                      ELSE n) |-> k - 1]
                      ELSE [k \in 1..(IF hit THEN n - LastHit(b, args.predicate)
                                      ELSE n) |-> n - k]

\* first stopped at index 1 of the test array, the first even element
C20_Witness ==
    /\ FilterRan /\ args.id = "first" /\ args.mode_id = "auto" /\ pre.pc = "idle"
    /\ pre.buf = TestArray /\ args.predicate = keep_even
    /\ status = 0 /\ out_count = 1 /\ calls = <<0, 1>>

\* C21: any on a bool array returns 0 with the accumulator equal to the OR of
\* all elements (false for an empty array), all with the AND (true for an empty
\* array), whatever the accumulator held before and for every lanes value.
C21_AnyAll ==
    (/\ ReduceRan /\ args.type_id = "bool" /\ args.id \in {"any", "all"}
     /\ Range(pre.buf) \subseteq {0, 1})
    => LET expected == IF args.id = "any" THEN 1 \in Range(pre.buf)
                       ELSE 0 \notin Range(pre.buf)
       IN  status = 0 /\ Low(accum, 1) = <<IF expected THEN 1 ELSE 0>>

\* a filter call that went past the checks in front, whether it returned or not
FilterEntered ==
    /\ args.fn = "filter" /\ pc \in {"returned", "killed"}
    /\ args.base # NULL /\ ~args.predicate.null
    /\ args.type_id \in FilterTypeNames

\* C22: with a null or "auto" algorithm identifier and a mode other than
\* "dry-run", the call enters lane-compact exactly when the mode is "lane" or
\* lanes > 1 and in-place otherwise (a null mode counting as "auto"); a named
\* algorithm is entered as named, whatever the mode and the lanes value.
C22_AutoResolution ==
    (FilterEntered /\ args.mode_id # "dry-run")
    => IF args.id \in {NULL, "auto"}
       THEN frame.alg = IF args.mode_id = "lane" \/ args.lanes > 1
                        THEN "lane-compact" ELSE "inplace"
       ELSE IF args.id \in {"inplace", "compact", "stable", "lane-compact",
                            "lane-stable", "count-only", "first", "last", "partition"}
            THEN frame.alg = args.id
       ELSE frame.alg = "none"

\* a null algorithm and a null mode with lanes 2 entered lane-compact
C22_Witness ==
    /\ FilterEntered /\ args.id = NULL /\ args.mode_id = NULL /\ args.lanes = 2
    /\ pre.buf = TestArray /\ args.predicate = keep_even
    /\ frame.alg = "lane-compact" /\ pc = "returned" /\ out_count = 3

\* C23: the partition loop keeps 0 <= left <= right <= count, evaluates the
\* predicate once per iteration, count times in all (the unexamined range
\* shrinks by one each time), and returns the number of original elements that
\* satisfy the predicate, positions [0, returned) holding a permutation of
\* exactly those elements.
C23_PartitionLoop ==
    LET count == Len(pre.buf)
        kept == Kept(pre.buf, args.predicate)
    IN  /\ pc = "partition"
            => /\ 0 <= frame.left /\ frame.left <= frame.right
               /\ frame.right <= count
               /\ Len(buf) = count
               /\ Len(calls) = count - (frame.right - frame.left)
        /\ (pc = "returned" /\ frame.alg = "partition")
            => /\ Len(calls) = count
               /\ status = 0
               /\ frame.left = Len(kept)
               /\ args.out # NULL => out_count = Len(kept)
               /\ SameElements(Prefix(buf, frame.left), kept)
               /\ \A i \in 1..frame.left : buf[i] \in args.predicate.keep

\* the loop finished on the test array: six evaluations, three elements kept
C23_Witness ==
    /\ pc = "returned" /\ frame.alg = "partition" /\ frame.left = 3
    /\ pre.buf = TestArray /\ args.predicate = keep_even /\ args.out # NULL
    /\ Len(calls) = 6 /\ out_count = 3 /\ buf = <<6, 2, 4, 4, 5, 6>>

\* C24: on an empty array, with non-null base and predicate and a supported
\* type, the call returns 0 with out_count 0 for every recognised algorithm,
\* mode and lanes value, lane-compact and lane-stable included.
C24_EmptyArray ==
    (/\ FilterEntered /\ pre.buf = <<>> /\ args.out # NULL
     /\ Requested \in {"inplace", "compact", "stable", "lane-compact", "lane-stable",
                       "count-only", "first", "last", "partition"})
    => (pc = "returned" /\ status = 0 /\ out_count = 0)

\* C25: when filter_exec or reduce_exec returns a non-zero status no callback
\* has been invoked and the buffer, out_count and the accumulator are what they
\* were before the call; the unknown-operator error of reduce included.
C25_ErrorsWriteNothing ==
    (pc = "returned" /\ args.fn \in {"filter", "reduce"} /\ status # 0)
    => (calls = <<>> /\ NothingWritten)

\* reduce refused an unknown operator on the first element of the test array
\* and left the accumulator's bytes as they were
C25_Witness ==
    /\ ReduceReturned /\ args.id = "notop" /\ args.type_id = "i32"
    /\ args.base # NULL /\ args.out # NULL
    /\ pre.buf = TestArray /\ pre.accum = Fill(170, AccBytes)
    /\ status = -3 /\ accum = Fill(170, AccBytes) /\ calls = <<>>

====
